---------------------------- MODULE Spec2Model ----------------------------
(***************************************************************************)
(* HashMap (open addressing, linear probing, tombstones, insertion-ordered *)
(* record list) and Set (AVL tree with parent links) of hse-algo.          *)
(*                                                                         *)
(* Spec      : the HashMap under insert / operator[] / erase / clear.      *)
(* SpecTree  : the Set under insert / erase / clear.                       *)
(* SpecAlloc : the HashMap under insert / operator[] / erase when the      *)
(*             allocation of a table beyond MaxCapacity slots fails.       *)
(***************************************************************************)
EXTENDS Integers, Sequences, FiniteSets, TLC

VARIABLES states, pointers, values, occupancy, hpc, last,
          nodes, root, first_node, num_values, tlast

hvars == <<states, pointers, values, occupancy, hpc, last>>
tvars == <<nodes, root, first_node, num_values, tlast>>
vars == <<states, pointers, values, occupancy, hpc, last,
          nodes, root, first_node, num_values, tlast>>

(***************************************************************************)
(* Bounds of the model.                                                    *)
(***************************************************************************)
NumKeys == 2
NumValues == 1
MaxCapacity == 16

Keys == 0 .. (NumKeys - 1)
Values == 1 .. NumValues

(***************************************************************************)
(* HashMap: constants of the class.                                        *)
(***************************************************************************)
OCCUPANCY_COEFFICIENT == 4
INITIAL_SIZE == 8
STATE_EMPTY == 0
STATE_FILLED == 1
STATE_ERASED == 2

\* ValueType(): the value-initialised mapped value operator[] inserts.
DefaultValue == 0

\* The Hash functor the map is instantiated with: every key has the same home
\* slot in a table of 8 slots, and keys 0, 2, ... still collide in one of 16.
Hash(key) == 8 * key

\* A singular (default-constructed) or invalidated list iterator, and the
\* result of a probe loop that never leaves its while loop.
NullPtr == 0
Diverge == -1

\* vector::size()
Size(vec) == Cardinality(DOMAIN vec)

\* std::list iterators.  The address of a list node has no meaning beyond
\* naming the node, so an iterator is written as the rank (1 .. size) of its
\* node in the list; an iterator whose node is gone is NullPtr.  Dereferencing
\* an iterator that names no node is outside the domain of the list.
Deref(vals, ptr) == vals[ptr]

\* ++position; if (position >= pointers.size()) position = 0;
NextPos(position, size) == IF position + 1 >= size THEN 0 ELSE position + 1

\* values.erase(it): the node leaves the list, the nodes behind it keep
\* their order.
ListErase(vals, ptr) ==
    [i \in 1 .. (Len(vals) - 1) |-> IF i < ptr THEN vals[i] ELSE vals[i + 1]]

\* What values.erase(it) does to the other iterators: the one erased is
\* invalidated, the others still name their nodes (whose rank moves up).
AfterErase(ptrs, ptr) ==
    [i \in DOMAIN ptrs |-> IF ptrs[i] = ptr THEN NullPtr
                           ELSE IF ptrs[i] > ptr THEN ptrs[i] - 1
                           ELSE ptrs[i]]

(***************************************************************************)
(* The probe loop of insert: while (states[position] == STATE_FILLED).     *)
(* Result: [dup |-> TRUE] when an equal key is met, else the first         *)
(* non-Filled position; Diverge when the loop never ends.                  *)
(***************************************************************************)
RECURSIVE InsertProbe(_, _, _, _)
InsertProbe(t, key, position, steps) ==
    IF steps > Size(t.pointers) THEN [dup |-> FALSE, pos |-> Diverge]
    ELSE IF t.states[position] = STATE_FILLED
    THEN IF Deref(t.values, t.pointers[position]).first = key
         THEN [dup |-> TRUE, pos |-> position]
         ELSE InsertProbe(t, key, NextPos(position, Size(t.pointers)), steps + 1)
    ELSE [dup |-> FALSE, pos |-> position]

(***************************************************************************)
(* The probe loop of operator[], at, erase and find:                       *)
(* while (Erased || (Filled && !(key matches))).                           *)
(***************************************************************************)
RECURSIVE LookupProbe(_, _, _, _)
LookupProbe(t, key, position, steps) ==
    IF steps > Size(t.pointers) THEN Diverge
    ELSE IF t.states[position] = STATE_ERASED
            \/ (t.states[position] = STATE_FILLED
                /\ ~(Deref(t.values, t.pointers[position]).first = key))
    THEN LookupProbe(t, key, NextPos(position, Size(t.pointers)), steps + 1)
    ELSE position

\* Faulty variant: the probe of check_size steps to the next slot without
\* looking at the state of the slot it starts from.
RehashProbeBlind(sts, position) == NextPos(position, Size(sts))

\* The probe loop of check_size over the new table.
RECURSIVE RehashProbe(_, _)
RehashProbe(sts, position) ==
    IF sts[position] = STATE_FILLED
    THEN RehashProbe(sts, NextPos(position, Size(sts)))
    ELSE position

\* Faulty variant: the for loop of check_size starts behind the first record.
RECURSIVE RehashSkipFirst(_, _, _, _)
RehashSkipFirst(vals, i, sts, ptrs) ==
    IF i > Len(vals) THEN [states |-> sts, pointers |-> ptrs]
    ELSE LET position == RehashProbe(sts, Hash(vals[i].first) % Size(ptrs))
         IN  RehashSkipFirst(vals, i + 1,
                    IF i = 1 THEN sts ELSE [sts EXCEPT ![position] = STATE_FILLED],
                    IF i = 1 THEN ptrs ELSE [ptrs EXCEPT ![position] = i])

\* The for loop of check_size: every record of the list, in list order.
RECURSIVE Rehash(_, _, _, _)
Rehash(vals, i, sts, ptrs) ==
    IF i > Len(vals) THEN [states |-> sts, pointers |-> ptrs]
    ELSE LET position == RehashProbe(sts, Hash(vals[i].first) % Size(ptrs))
         IN  Rehash(vals, i + 1,
                    [sts EXCEPT ![position] = STATE_FILLED],
                    [ptrs EXCEPT ![position] = i])

NeedsGrowth(t) == t.occupancy * OCCUPANCY_COEFFICIENT >= Size(t.pointers)

\* Faulty variant: the threshold test compares with twice the table size.
check_size_late(t) ==
    IF t.occupancy * OCCUPANCY_COEFFICIENT >= 2 * Size(t.pointers)
    THEN LET n == Size(t.pointers) * 2
             r == Rehash(t.values, 1,
                         [i \in 0 .. (n - 1) |-> STATE_EMPTY],
                         [i \in 0 .. (n - 1) |-> NullPtr])
         IN  [states |-> r.states, pointers |-> r.pointers, values |-> t.values,
              occupancy |-> IF Len(t.values) = 0 THEN t.occupancy ELSE 0]
    ELSE t

\* check_size (allocation succeeds).  occupancy = 0 sits inside the for
\* loop: it is reset only when the list holds at least one record.
check_size(t) ==
    IF NeedsGrowth(t)
    THEN LET n == Size(t.pointers) * 2
             r == Rehash(t.values, 1,
                         [i \in 0 .. (n - 1) |-> STATE_EMPTY],
                         [i \in 0 .. (n - 1) |-> NullPtr])
         IN  [states |-> r.states, pointers |-> r.pointers, values |-> t.values,
              occupancy |-> IF Len(t.values) = 0 THEN t.occupancy ELSE 0]
    ELSE t

\* values.insert(end(), pair); pointers[position] = --end();
\* if (states[position] == STATE_EMPTY) ++occupancy; states[position] = FILLED
PutAt(t, position, key, value) ==
    [states |-> [t.states EXCEPT ![position] = STATE_FILLED],
     pointers |-> [t.pointers EXCEPT ![position] = Len(t.values) + 1],
     values |-> Append(t.values, [first |-> key, second |-> value]),
     occupancy |-> IF t.states[position] = STATE_EMPTY
                   THEN t.occupancy + 1 ELSE t.occupancy]

\* Faulty variant: clear resets the home slot of a record only.
ClearChainHomeOnly(sts, position) == [sts EXCEPT ![position] = STATE_EMPTY]

\* The inner while loop of clear for one record.
RECURSIVE ClearChain(_, _)
ClearChain(sts, position) ==
    IF sts[position] # STATE_EMPTY
    THEN ClearChain([sts EXCEPT ![position] = STATE_EMPTY], NextPos(position, Size(sts)))
    ELSE sts

\* The for loop of clear over the records of the list.
RECURSIVE ClearLoop(_, _, _)
ClearLoop(vals, i, sts) ==
    IF i > Len(vals) THEN sts
    ELSE ClearLoop(vals, i + 1, ClearChain(sts, Hash(vals[i].first) % Size(sts)))

\* The map as one record.
Table == [states |-> states, pointers |-> pointers, values |-> values,
          occupancy |-> occupancy]

Capacity == Size(pointers)

\* A key is live when a record of the list holds it.
LiveIn(vals, key) == \E i \in 1 .. Len(vals) : vals[i].first = key
Live(key) == LiveIn(values, key)

\* find(key): the record found, "end", or "hang" when the probe never stops.
FindIn(t, key) ==
    LET position == LookupProbe(t, key, Hash(key) % Size(t.pointers), 0)
    IN  IF position = Diverge THEN [kind |-> "hang"]
        ELSE IF t.states[position] # STATE_FILLED THEN [kind |-> "end"]
        ELSE [kind |-> "record", rec |-> Deref(t.values, t.pointers[position])]
HashMap_find(key) == FindIn(Table, key)

\* at(key): the value, "throw" (std::out_of_range), or "hang".
AtIn(t, key) ==
    LET position == LookupProbe(t, key, Hash(key) % Size(t.pointers), 0)
    IN  IF position = Diverge THEN [kind |-> "hang"]
        ELSE IF t.states[position] # STATE_FILLED THEN [kind |-> "throw"]
        ELSE [kind |-> "value", value |-> Deref(t.values, t.pointers[position]).second]
HashMap_at(key) == AtIn(Table, key)

\* What the last operation was, and what held when it was called.
Op(name, key, value, t) ==
    [name |-> name, key |-> key, value |-> value,
     wasLive |-> LiveIn(values, key),
     grew |-> (Size(t.pointers) # Capacity)]

SetTable(t) ==
    /\ states' = t.states
    /\ pointers' = t.pointers
    /\ values' = t.values
    /\ occupancy' = t.occupancy

\* The model stops doubling at MaxCapacity.
MayCheckSize == NeedsGrowth(Table) => Capacity * 2 <= MaxCapacity

\* insert(pair)
HashMap_insert(key, value) ==
    /\ hpc = "ready"
    /\ MayCheckSize
    /\ LET t == check_size(Table)
           p == InsertProbe(t, key, Hash(key) % Size(t.pointers), 0)
       IN  /\ last' = Op("insert", key, value, t)
           /\ IF p.dup
              THEN SetTable(t) /\ hpc' = hpc
              ELSE IF p.pos = Diverge
              THEN SetTable(t) /\ hpc' = "hung"
              ELSE SetTable(PutAt(t, p.pos, key, value)) /\ hpc' = hpc
    /\ UNCHANGED tvars

\* operator[](key)
HashMap_index(key) ==
    /\ hpc = "ready"
    /\ MayCheckSize
    /\ LET t == check_size(Table)
           position == LookupProbe(t, key, Hash(key) % Size(t.pointers), 0)
       IN  /\ last' = Op("index", key, DefaultValue, t)
           /\ IF position = Diverge
              THEN SetTable(t) /\ hpc' = "hung"
              ELSE IF t.states[position] # STATE_FILLED
              THEN SetTable(PutAt(t, position, key, DefaultValue)) /\ hpc' = hpc
              ELSE SetTable(t) /\ hpc' = hpc
    /\ UNCHANGED tvars

\* The heap of the model holds tables of up to MaxCapacity slots: the
\* allocation of a larger one throws std::bad_alloc.
AllocFails == Capacity * 2 > MaxCapacity

\* check_size when the allocation of new_pointers (line 221) throws
\* std::bad_alloc: the catch clause is empty and no member has been assigned.
check_size_bad_alloc(t) == t

\* insert(pair) when the allocation in its check_size fails.
HashMap_insert_bad_alloc(key, value) ==
    /\ hpc = "ready"
    /\ NeedsGrowth(Table)
    /\ AllocFails
    /\ LET t == check_size_bad_alloc(Table)
           p == InsertProbe(t, key, Hash(key) % Size(t.pointers), 0)
       IN  /\ last' = Op("insert_bad_alloc", key, value, t)
           /\ IF p.dup
              THEN SetTable(t) /\ hpc' = hpc
              ELSE IF p.pos = Diverge
              THEN SetTable(t) /\ hpc' = "hung"
              ELSE SetTable(PutAt(t, p.pos, key, value)) /\ hpc' = hpc
    /\ UNCHANGED tvars

\* operator[](key) when the allocation in its check_size fails.
HashMap_index_bad_alloc(key) ==
    /\ hpc = "ready"
    /\ NeedsGrowth(Table)
    /\ AllocFails
    /\ LET t == check_size_bad_alloc(Table)
           position == LookupProbe(t, key, Hash(key) % Size(t.pointers), 0)
       IN  /\ last' = Op("index_bad_alloc", key, DefaultValue, t)
           /\ IF position = Diverge
              THEN SetTable(t) /\ hpc' = "hung"
              ELSE IF t.states[position] # STATE_FILLED
              THEN SetTable(PutAt(t, position, key, DefaultValue)) /\ hpc' = hpc
              ELSE SetTable(t) /\ hpc' = hpc
    /\ UNCHANGED tvars

\* A call of at(key): a const member, it assigns to no field; the call does
\* not return when its probe loop does not end.
HashMap_at_call(key) ==
    /\ hpc = "ready"
    /\ last' = Op("at", key, DefaultValue, Table)
    /\ SetTable(Table)
    /\ hpc' = IF HashMap_at(key).kind = "hang" THEN "hung" ELSE hpc
    /\ UNCHANGED tvars

\* Faulty variant: erase marks the slot Empty instead of leaving a tombstone.
EraseAtNoTombstone(t, position) ==
    [states |-> [t.states EXCEPT ![position] = STATE_EMPTY],
     pointers |-> AfterErase(t.pointers, t.pointers[position]),
     values |-> ListErase(t.values, t.pointers[position]),
     occupancy |-> t.occupancy]

\* Faulty variant: erase gives the slot back to the occupancy counter.
EraseAtDecrement(t, position) ==
    [states |-> [t.states EXCEPT ![position] = STATE_ERASED],
     pointers |-> AfterErase(t.pointers, t.pointers[position]),
     values |-> ListErase(t.values, t.pointers[position]),
     occupancy |-> t.occupancy - 1]

\* values.erase(pointers[position]); states[position] = STATE_ERASED;
EraseAt(t, position) ==
    [states |-> [t.states EXCEPT ![position] = STATE_ERASED],
     pointers |-> AfterErase(t.pointers, t.pointers[position]),
     values |-> ListErase(t.values, t.pointers[position]),
     occupancy |-> t.occupancy]

\* erase(key)
HashMap_erase(key) ==
    /\ hpc = "ready"
    /\ LET position == LookupProbe(Table, key, Hash(key) % Capacity, 0)
       IN  /\ last' = Op("erase", key, DefaultValue, Table)
           /\ IF position = Diverge
              THEN SetTable(Table) /\ hpc' = "hung"
              ELSE IF states[position] = STATE_FILLED
              THEN SetTable(EraseAt(Table, position)) /\ hpc' = hpc
              ELSE SetTable(Table) /\ hpc' = hpc
    /\ UNCHANGED tvars

\* clear()
HashMap_clear ==
    /\ hpc = "ready"
    /\ last' = Op("clear", 0, DefaultValue, Table)
    /\ states' = ClearLoop(values, 1, states)
    /\ values' = <<>>
    /\ pointers' = [i \in DOMAIN pointers |-> NullPtr]
    /\ occupancy' = 0
    /\ hpc' = hpc
    /\ UNCHANGED tvars

(***************************************************************************)
(* Set: the AVL tree.  nodes maps the address of every allocated Node to   *)
(* its fields; NullNode is nullptr.                                        *)
(***************************************************************************)
MaxValue == 8

TreeValues == 1 .. MaxValue
NullNode == 0

\* new Node(value): an address not in use.
NewNode(h) == CHOOSE n \in 1 .. (Cardinality(DOMAIN h) + 1) : n \notin DOMAIN h

\* delete node, for a node without children.
FreeNode(h, n) == [i \in (DOMAIN h) \ {n} |-> h[i]]

Max(a, b) == IF a >= b THEN a ELSE b

\* Faulty variant: update_height forgets the right child.
update_height_left_only(h, n) ==
    [h EXCEPT ![n].height =
        IF h[n].left # NullNode THEN Max(1, h[h[n].left].height + 1) ELSE 1]

\* Node::update_height
update_height(h, n) ==
    LET h1 == IF h[n].left # NullNode THEN Max(1, h[h[n].left].height + 1) ELSE 1
        h2 == IF h[n].right # NullNode THEN Max(h1, h[h[n].right].height + 1) ELSE h1
    IN  [h EXCEPT ![n].height = h2]

\* Node::get_balance.  The subtraction is done in size_t and converted to int,
\* which gives the signed difference of the two heights.
get_balance(h, n) ==
    (IF h[n].left = NullNode THEN 0 ELSE h[h[n].left].height)
    - (IF h[n].right = NullNode THEN 0 ELSE h[h[n].right].height)

\* Faulty variant: equal without its two negations.
equal_unnegated(h, n, val) == (val < h[n].value) /\ (h[n].value < val)

\* Node::equal
equal(h, n, val) == ~(val < h[n].value) /\ ~(h[n].value < val)

\* rotate_left(Node*& a): the heap after the rotation and the new value of
\* the reference a.
rotate_left(h, a) ==
    LET b == h[a].right
        m == h[b].left
        h1 == [h EXCEPT ![b].parent = h[a].parent]
        h2 == [h1 EXCEPT ![a].right = m]
        h3 == IF m # NullNode THEN [h2 EXCEPT ![m].parent = a] ELSE h2
        h4 == [h3 EXCEPT ![b].left = a]
        h5 == [h4 EXCEPT ![a].parent = b]
        h6 == update_height(h5, a)
        h7 == update_height(h6, b)
    IN  [h |-> h7, p |-> b]

\* Faulty variant: rotate_right does not hand the subtree m its new parent.
rotate_right_orphan(h, a) ==
    LET b == h[a].left
        m == h[b].right
        h1 == [h EXCEPT ![b].parent = h[a].parent]
        h2 == [h1 EXCEPT ![a].left = m]
        h4 == [h2 EXCEPT ![b].right = a]
        h5 == [h4 EXCEPT ![a].parent = b]
        h6 == update_height(h5, a)
        h7 == update_height(h6, b)
    IN  [h |-> h7, p |-> b]

\* rotate_right(Node*& a)
rotate_right(h, a) ==
    LET b == h[a].left
        m == h[b].right
        h1 == [h EXCEPT ![b].parent = h[a].parent]
        h2 == [h1 EXCEPT ![a].left = m]
        h3 == IF m # NullNode THEN [h2 EXCEPT ![m].parent = a] ELSE h2
        h4 == [h3 EXCEPT ![b].right = a]
        h5 == [h4 EXCEPT ![a].parent = b]
        h6 == update_height(h5, a)
        h7 == update_height(h6, b)
    IN  [h |-> h7, p |-> b]

\* big_rotate_left(Node*& a): rotate_right(a->right); rotate_left(a);
big_rotate_left(h, a) ==
    LET r == rotate_right(h, h[a].right)
    IN  rotate_left([r.h EXCEPT ![a].right = r.p], a)

\* big_rotate_right(Node*& a): rotate_left(a->left); rotate_right(a);
big_rotate_right(h, a) ==
    LET r == rotate_left(h, h[a].left)
    IN  rotate_right([r.h EXCEPT ![a].left = r.p], a)

\* Faulty variant: balance_node never uses the double rotations.
balance_node_single(h, node) ==
    LET balance == get_balance(h, node)
    IN  IF balance = -2 THEN rotate_left(h, node)
        ELSE IF balance = 2 THEN rotate_right(h, node)
        ELSE [h |-> h, p |-> node]

\* balance_node(Node*& node)
balance_node(h, node) ==
    LET balance == get_balance(h, node)
    IN  IF balance = -2
        THEN IF get_balance(h, h[node].right) = 1
             THEN big_rotate_left(h, node)
             ELSE rotate_left(h, node)
        ELSE IF balance = 2
        THEN IF get_balance(h, h[node].left) = -1
             THEN big_rotate_right(h, node)
             ELSE rotate_right(h, node)
        ELSE [h |-> h, p |-> node]

\* insert_value(Node*& node, value, parent): the heap, the new value of the
\* reference node, and the number of nodes created.
RECURSIVE insert_value(_, _, _, _)
insert_value(h, node, value, parent) ==
    IF node = NullNode
    THEN LET n == NewNode(h)
         IN  [h |-> h @@ (n :> [left |-> NullNode, right |-> NullNode,
                                parent |-> parent, value |-> value, height |-> 1]),
              p |-> n, added |-> 1]
    ELSE IF equal(h, node, value)
    THEN [h |-> h, p |-> node, added |-> 0]
    ELSE LET r == IF value < h[node].value
                  THEN insert_value(h, h[node].left, value, node)
                  ELSE insert_value(h, h[node].right, value, node)
             h1 == IF value < h[node].value
                   THEN [r.h EXCEPT ![node].left = r.p]
                   ELSE [r.h EXCEPT ![node].right = r.p]
             b == balance_node(update_height(h1, node), node)
         IN  [h |-> b.h, p |-> b.p, added |-> r.added]

\* Faulty variant: the walk to the leftmost node stops at its first node.
LeftmostNoWalk(h, n) == n

\* Node* near = node->right; while (near->left != nullptr) near = near->left;
RECURSIVE Leftmost(_, _)
Leftmost(h, n) == IF h[n].left # NullNode THEN Leftmost(h, h[n].left) ELSE n

\* Node* near = node->left; while (near->right != nullptr) near = near->right;
RECURSIVE Rightmost(_, _)
Rightmost(h, n) == IF h[n].right # NullNode THEN Rightmost(h, h[n].right) ELSE n

\* std::swap(node->value, near->value)
SwapValues(h, a, b) ==
    [h EXCEPT ![a].value = h[b].value, ![b].value = h[a].value]

\* Faulty variant: erase always takes the neighbour from the right subtree when there
\* is one, whatever the heights.
TakeRightAlways(h, node) == h[node].right # NullNode

\* The test of erase_value that sends it to the minimum of the right subtree.
TakeRight(h, node) ==
    \/ h[node].left = NullNode
    \/ (h[node].right # NullNode
        /\ h[h[node].right].height > h[h[node].left].height)

\* erase_value(Node*& node, value): the heap, the new value of the reference
\* node, and the number of nodes deleted.
RECURSIVE erase_value(_, _, _)
erase_value(h, node, value) ==
    IF node = NullNode
    THEN [h |-> h, p |-> node, removed |-> 0]
    ELSE IF equal(h, node, value)
            /\ h[node].left = NullNode /\ h[node].right = NullNode
    THEN [h |-> FreeNode(h, node), p |-> NullNode, removed |-> 1]
    ELSE LET goRight ==
                 IF equal(h, node, value) THEN TakeRight(h, node)
                 ELSE ~(value < h[node].value)
             h0 == IF equal(h, node, value)
                   THEN IF goRight
                        THEN SwapValues(h, node, Leftmost(h, h[node].right))
                        ELSE SwapValues(h, node, Rightmost(h, h[node].left))
                   ELSE h
             r == IF goRight
                  THEN erase_value(h0, h0[node].right, value)
                  ELSE erase_value(h0, h0[node].left, value)
             h1 == IF goRight
                   THEN [r.h EXCEPT ![node].right = r.p]
                   ELSE [r.h EXCEPT ![node].left = r.p]
             b == balance_node(update_height(h1, node), node)
         IN  [h |-> b.h, p |-> b.p, removed |-> r.removed]

\* update_first_node
update_first_node(h, r) == IF r = NullNode THEN NullNode ELSE Leftmost(h, r)

\* ~Node: delete left; delete right; for the node given to delete.
RECURSIVE DeleteTree(_, _)
DeleteTree(h, n) ==
    IF n = NullNode THEN h
    ELSE FreeNode(DeleteTree(DeleteTree(h, h[n].left), h[n].right), n)

\* --end(): SetIterator::operator-- on an iterator whose node is nullptr.
Last(h, r) == Rightmost(h, r)

\* Faulty variant: operator++ does not climb before it steps to the parent.
ClimbFromRightNone(h, r, node) == node

\* SetIterator::operator++, the climb:
\* while (node != root && node == node->parent->right) node = node->parent;
RECURSIVE ClimbFromRight(_, _, _)
ClimbFromRight(h, r, node) ==
    IF node # r /\ node = h[h[node].parent].right
    THEN ClimbFromRight(h, r, h[node].parent)
    ELSE node

\* SetIterator::operator++ on the iterator (node, r); NullNode is end().
\* (On end() itself the operator dereferences nullptr; it is applied to
\* iterators that reference a node only.)
Increment(h, r, node) ==
    IF h[node].right # NullNode
    THEN Leftmost(h, h[node].right)
    ELSE h[ClimbFromRight(h, r, node)].parent

\* SetIterator::operator--, the climb:
\* while (node == node->parent->left) node = node->parent;
RECURSIVE ClimbFromLeft(_, _)
ClimbFromLeft(h, node) ==
    IF node = h[h[node].parent].left
    THEN ClimbFromLeft(h, h[node].parent)
    ELSE node

\* SetIterator::operator-- on the iterator (node, r).  (On begin(), and on
\* end() of an empty set, the operator dereferences nullptr; it is applied
\* to other iterators only.)
Decrement(h, r, node) ==
    IF node = NullNode THEN Last(h, r)
    ELSE IF h[node].left # NullNode
    THEN Rightmost(h, h[node].left)
    ELSE h[ClimbFromLeft(h, node)].parent

\* Faulty variant: the loop does not record the node it leaves to the left.
RECURSIVE LowerBoundLoopStale(_, _, _, _)
LowerBoundLoopStale(h, node, candidate, value) ==
    IF node = NullNode THEN candidate
    ELSE IF equal(h, node, value) THEN node
    ELSE IF h[node].value < value
    THEN LowerBoundLoopStale(h, h[node].right, candidate, value)
    ELSE IF h[node].left = NullNode THEN node
    ELSE LowerBoundLoopStale(h, h[node].left, candidate, value)

\* The while loop of lower_bound.
RECURSIVE LowerBoundLoop(_, _, _, _)
LowerBoundLoop(h, node, candidate, value) ==
    IF node = NullNode THEN candidate
    ELSE IF equal(h, node, value) THEN node
    ELSE IF h[node].value < value
    THEN LowerBoundLoop(h, h[node].right, candidate, value)
    ELSE IF h[node].left = NullNode THEN node
    ELSE LowerBoundLoop(h, h[node].left, node, value)

\* lower_bound(value): the node of the iterator returned, NullNode for end().
lower_bound_in(h, r, n, value) ==
    IF n = 0 \/ h[Last(h, r)].value < value THEN NullNode
    ELSE LowerBoundLoop(h, r, NullNode, value)
lower_bound(value) == lower_bound_in(nodes, root, num_values, value)

\* Faulty variant: find returns what lower_bound returns.
find_in_unchecked(h, r, n, value) == lower_bound_in(h, r, n, value)

\* find(value)
find_in(h, r, n, value) ==
    LET it == lower_bound_in(h, r, n, value)
    IN  IF it # NullNode /\ equal(h, it, value) THEN it ELSE NullNode
Set_find(value) == find_in(nodes, root, num_values, value)

\* The values held by the allocated nodes.
Stored == {nodes[n].value : n \in DOMAIN nodes}

\* The address of a node has no meaning beyond naming the node.  When a public
\* operation returns, every node is named by the value it holds, so that two
\* heaps that differ only in the addresses handed out by new are one state.
\* (Nothing is renamed if two nodes hold the same value.)
Renamable(h) == Cardinality({h[n].value : n \in DOMAIN h}) = Cardinality(DOMAIN h)
NameOf(h, p) == IF p = NullNode \/ ~Renamable(h) THEN p ELSE h[p].value
Renamed(h) ==
    IF ~Renamable(h) THEN h
    ELSE [v \in {h[n].value : n \in DOMAIN h} |->
            LET n == CHOOSE m \in DOMAIN h : h[m].value = v
            IN  [left |-> NameOf(h, h[n].left), right |-> NameOf(h, h[n].right),
                 parent |-> NameOf(h, h[n].parent), value |-> v,
                 height |-> h[n].height]]

\* The state of the Set after insert_value / erase_value returned r.
SetTree(r) ==
    /\ nodes' = Renamed(r.h)
    /\ root' = NameOf(r.h, r.p)
    /\ first_node' = NameOf(r.h, update_first_node(r.h, r.p))

\* What the last operation was, whether its value was stored then, and
\* whether the node that held it had a child.
TreeOp(name, value) ==
    [name |-> name, value |-> value, wasIn |-> (value \in Stored),
     inner |-> \E n \in DOMAIN nodes :
                  /\ nodes[n].value = value
                  /\ (nodes[n].left # NullNode \/ nodes[n].right # NullNode)]

\* Set::insert
Set_insert(value) ==
    /\ LET r == insert_value(nodes, root, value, NullNode)
       IN  SetTree(r) /\ num_values' = num_values + r.added
    /\ tlast' = TreeOp("insert", value)
    /\ UNCHANGED hvars

\* Set::erase
Set_erase(value) ==
    /\ LET r == erase_value(nodes, root, value)
       IN  SetTree(r) /\ num_values' = num_values - r.removed
    /\ tlast' = TreeOp("erase", value)
    /\ UNCHANGED hvars

\* Set::clear
Set_clear ==
    /\ nodes' = DeleteTree(nodes, root)
    /\ num_values' = 0
    /\ root' = NullNode
    /\ first_node' = NullNode
    /\ tlast' = TreeOp("clear", 0)
    /\ UNCHANGED hvars

HInit ==
    /\ states = [i \in 0 .. (INITIAL_SIZE - 1) |-> STATE_EMPTY]
    /\ pointers = [i \in 0 .. (INITIAL_SIZE - 1) |-> NullPtr]
    /\ values = <<>>
    /\ occupancy = 0
    /\ hpc = "ready"
    /\ last = [name |-> "new", key |-> 0, value |-> DefaultValue,
               wasLive |-> FALSE, grew |-> FALSE]

TInit ==
    /\ nodes = [n \in {} |-> NullNode]
    /\ root = NullNode
    /\ first_node = NullNode
    /\ num_values = 0
    /\ tlast = [name |-> "new", value |-> 0, wasIn |-> FALSE, inner |-> FALSE]

Init == HInit /\ TInit

Next ==
    \/ \E key \in Keys, value \in Values : HashMap_insert(key, value)
    \/ \E key \in Keys : HashMap_index(key)
    \/ \E key \in Keys : HashMap_erase(key)
    \/ HashMap_clear
    \/ \E key \in Keys : HashMap_at_call(key)

Spec == Init /\ [][Next]_vars

\* The HashMap under insert / operator[] / erase when the allocation of a
\* table beyond MaxCapacity slots fails.
NextAlloc ==
    \/ \E key \in Keys, value \in Values : HashMap_insert(key, value)
    \/ \E key \in Keys : HashMap_index(key)
    \/ \E key \in Keys : HashMap_erase(key)
    \/ \E key \in Keys, value \in Values : HashMap_insert_bad_alloc(key, value)
    \/ \E key \in Keys : HashMap_index_bad_alloc(key)

SpecAlloc == Init /\ [][NextAlloc]_vars

NextTree ==
    \/ \E value \in TreeValues : Set_insert(value)
    \/ \E value \in TreeValues : Set_erase(value)
    \/ Set_clear

SpecTree == Init /\ [][NextTree]_vars


(***************************************************************************)
(* HashMap: properties.                                                    *)
(***************************************************************************)
Home(key) == Hash(key) % Capacity

\* Every Filled slot holds an iterator to a record of the list, so no probe
\* dereferences an invalidated iterator.
FilledSlotsValid ==
    \A i \in DOMAIN states :
        states[i] = STATE_FILLED => pointers[i] \in 1 .. Len(values)

\* C1: insert(key, value) of a key that is live is a no-op: the record list
\* (size, iteration sequence, stored values) is the same before and after,
\* also when an Erased slot lies between the key's home slot and its slot.
C1_InsertLiveIsNoOp ==
    [][(last'.name = "insert" /\ last'.wasLive) => values' = values]_vars

\* C2: once erase(k) has returned, find(k) is end() and at(k) throws.
C2_EraseThenAbsent ==
    (last.name = "erase" /\ hpc = "ready")
        => /\ HashMap_find(last.key).kind = "end"
           /\ HashMap_at(last.key).kind = "throw"

\* C3: in every reachable state some slot is Empty, so the lookup probe of
\* find / at / erase / operator[] stops for every key, absent ones included.
C3_LookupTerminates ==
    /\ \E i \in DOMAIN states : states[i] = STATE_EMPTY
    /\ \A key \in Keys : HashMap_find(key).kind # "hang"
    /\ hpc = "ready"

\* C4: the record list is exactly the live pairs in insertion order: an
\* insert or operator[] of a key that is not live appends its pair and one of
\* a live key changes nothing; erase(k) removes the records of k and keeps
\* the others in order; clear empties the list; growth changes nothing.
C4_InsertionOrder ==
    [][(hpc' = "ready") =>
          /\ (last'.name \in {"insert", "index"}) =>
                values' = IF last'.wasLive THEN values
                          ELSE Append(values, [first |-> last'.key,
                                               second |-> last'.value])
          /\ (last'.name = "erase") =>
                values' = SelectSeq(values, LAMBDA r : r.first # last'.key)
          /\ (last'.name = "clear") => values' = <<>>]_vars

\* C5: right after insert(k, v) of a key that was not live, find(k) is a
\* record (k, v) and at(k) is v; and while a record of k is in the list,
\* find(k) is a record of k and at(k) does not throw, whatever was inserted,
\* erased or rehashed since.
LiveKeysFound ==
    \A key \in Keys :
        Live(key) => /\ HashMap_find(key).kind = "record"
                     /\ HashMap_find(key).rec.first = key
                     /\ HashMap_at(key).kind = "value"
InsertedIsFound ==
    (last'.name = "insert" /\ ~last'.wasLive /\ hpc' = "ready")
        => /\ FindIn(Table', last'.key) =
                 [kind |-> "record",
                  rec |-> [first |-> last'.key, second |-> last'.value]]
           /\ AtIn(Table', last'.key) = [kind |-> "value", value |-> last'.value]
C5_InsertThenFound == [](LiveKeysFound) /\ [][InsertedIsFound]_vars

\* C5 witness: a live key that is found behind a tombstone in its home slot,
\* left there by the erase of another key.
C5_Witness ==
    \E key \in Keys :
        /\ last.name = "erase" /\ last.wasLive /\ last.key # key
        /\ Live(key)
        /\ states[Home(key)] = STATE_ERASED
        /\ HashMap_find(key).kind = "record"

C11_AtContract ==
    [][(last'.name = "at") =>
          /\ hpc' = "ready"
          /\ Table' = Table
          /\ IF Live(last'.key)
             THEN /\ HashMap_at(last'.key).kind = "value"
                  /\ \E i \in 1 .. Len(values) :
                        values[i] = [first |-> last'.key,
                                     second |-> HashMap_at(last'.key).value]
             ELSE HashMap_at(last'.key).kind = "throw"]_vars

\* C12: erase(key) of a key that is not live leaves the record list (size and
\* iteration sequence) and every slot state as they were; erase of any key,
\* live or not, leaves capacity and occupancy as they were.
C12_EraseFrame ==
    [][(last'.name = "erase") =>
          /\ Capacity' = Capacity
          /\ occupancy' = occupancy
          /\ ~last'.wasLive => (values' = values /\ states' = states)]_vars

\* C12 witness: erase of a key that is not live has returned on a table that
\* holds a record of the other key and a tombstone.
C12_Witness ==
    /\ last.name = "erase" /\ ~last.wasLive /\ hpc = "ready"
    /\ Len(values) > 0
    /\ \E i \in DOMAIN states : states[i] = STATE_ERASED

\* C14: operator[](key) returns; for a live key it leaves the record list as
\* it was and returns the value of a record of key; for a key that is not
\* live it appends the one record (key, default value) at the end of the
\* list and returns that record's value.  No call adds a record for a key
\* that is live, whatever Erased slots lie on its probe path.
C14_IndexContract ==
    [][(last'.name = "index") =>
          /\ hpc' = "ready"
          /\ values' = IF last'.wasLive THEN values
                       ELSE Append(values, [first |-> last'.key,
                                            second |-> DefaultValue])
          /\ AtIn(Table', last'.key).kind = "value"
          /\ IF last'.wasLive
             THEN \E i \in 1 .. Len(values) :
                     values[i] = [first |-> last'.key,
                                  second |-> AtIn(Table', last'.key).value]
             ELSE AtIn(Table', last'.key).value = DefaultValue]_vars

\* C15: when clear() has returned, every slot is Empty, the record list is
\* empty and occupancy is 0, also when the table held Erased slots.
C15_ClearResets ==
    (last.name = "clear") =>
        /\ \A i \in DOMAIN states : states[i] = STATE_EMPTY
        /\ values = <<>>
        /\ occupancy = 0

\* C16: an insert or operator[] whose check_size found occupancy * 4 >=
\* capacity leaves a table of twice the capacity in which every record of the
\* list is referenced by a Filled slot and occupancy is the number of records.
C16_GrowthOccupancy ==
    [][last'.grew =>
          /\ Capacity' = 2 * Capacity
          /\ \A i \in 1 .. Len(values') :
                \E s \in DOMAIN states' :
                    states'[s] = STATE_FILLED /\ pointers'[s] = i
          /\ occupancy' = Len(values')]_vars

\* The number of probe steps from the home slot of key to slot s.
ProbeDistance(key, s) == (s + Capacity - Home(key)) % Capacity

\* C17: every Filled slot s references a record of the list, and the probe
\* sequence of that record's key, from hash(key) mod capacity on with wrap,
\* reaches s over Filled and Erased slots only: no slot before s is Empty.
C17_ProbePath ==
    \A s \in DOMAIN states :
        states[s] = STATE_FILLED =>
            /\ pointers[s] \in 1 .. Len(values)
            /\ LET key == Deref(values, pointers[s]).first
               IN  \A j \in 0 .. (ProbeDistance(key, s) - 1) :
                      states[(Home(key) + j) % Capacity] # STATE_EMPTY

\* C17 witness: in a table that has grown, a record sits two or more steps
\* from the home slot of its key, behind a tombstone.
C17_Witness ==
    /\ Capacity > INITIAL_SIZE
    /\ \E s \in DOMAIN states :
          /\ states[s] = STATE_FILLED
          /\ ProbeDistance(Deref(values, pointers[s]).first, s) >= 2
          /\ \E j \in 0 .. (ProbeDistance(Deref(values, pointers[s]).first, s) - 1) :
                states[(Home(Deref(values, pointers[s]).first) + j) % Capacity]
                    = STATE_ERASED

\* C18: across an insert or operator[] whose check_size has grown the table,
\* the records that were in the list are still its first records, same keys,
\* values and order (the call itself appends at most its own record); no slot
\* of the new table is Erased; every key that was live is found by find.
C18_GrowthKeepsRecords ==
    [][last'.grew =>
          /\ Len(values') = Len(values) + (IF last'.wasLive THEN 0 ELSE 1)
          /\ SubSeq(values', 1, Len(values)) = values
          /\ \A s \in DOMAIN states' : states'[s] # STATE_ERASED
          /\ \A key \in Keys :
                LiveIn(values, key) =>
                    /\ FindIn(Table', key).kind = "record"
                    /\ FindIn(Table', key).rec.first = key]_vars

\* C18 witness: a call for a live key has grown a table that held one record
\* and occupancy 2 or more (so at least one tombstone): what it returns in
\* is the table check_size built, with that record.
C18_Witness ==
    /\ last.grew /\ last.wasLive
    /\ Len(values) = 1
    /\ HashMap_find(last.key).kind = "record"

\* The slots whose state or reference differs between two tables.
ChangedSlots(t, u) ==
    {i \in DOMAIN t.states :
        t.states[i] # u.states[i] \/ t.pointers[i] # u.pointers[i]}

\* C22: an insert or operator[] whose growth allocation fails returns when
\* the table has a slot that is not Filled; the capacity is unchanged; the
\* records that were in the list are still its first records and at most one
\* is appended; at most the one slot of that record has changed; and the key
\* is live afterwards.
C22_AllocFailure ==
    [][(last'.name \in {"insert_bad_alloc", "index_bad_alloc"}) =>
          /\ Capacity' = Capacity
          /\ SubSeq(values', 1, Len(values)) = values
          /\ Len(values') <= Len(values) + 1
          /\ Cardinality(ChangedSlots(Table, Table')) <= 1
          /\ (\E i \in DOMAIN states : states[i] # STATE_FILLED) =>
                (hpc' = "ready" /\ LiveIn(values', last'.key))]_vars

\* The Filled slots of the table.
FilledSlots == {s \in DOMAIN states : states[s] = STATE_FILLED}

\* C23: every Filled slot references a record that is in the list; every
\* record of the list is referenced by exactly one Filled slot; and size()
\* is the number of Filled slots.
C23_SlotsAndRecords ==
    /\ \A s \in FilledSlots : pointers[s] \in 1 .. Len(values)
    /\ \A i \in 1 .. Len(values) :
          Cardinality({s \in FilledSlots : pointers[s] = i}) = 1
    /\ Len(values) = Cardinality(FilledSlots)

\* C23 witness: after the erase of a live key, a table that has grown holds
\* two or more records and a tombstone.
C23_Witness ==
    /\ last.name = "erase" /\ last.wasLive
    /\ Capacity > INITIAL_SIZE
    /\ Len(values) >= 2
    /\ \E s \in DOMAIN states : states[s] = STATE_ERASED

(***************************************************************************)
(* Set: properties.                                                        *)
(***************************************************************************)
\* The height of the subtree at n, counted on the child links (0 for none).
RECURSIVE TreeHeight(_, _)
TreeHeight(h, n) ==
    IF n = NullNode THEN 0
    ELSE 1 + Max(TreeHeight(h, h[n].left), TreeHeight(h, h[n].right))

\* The values in the subtree at n.
RECURSIVE SubtreeValues(_, _)
SubtreeValues(h, n) ==
    IF n = NullNode THEN {}
    ELSE {h[n].value} \cup SubtreeValues(h, h[n].left)
                      \cup SubtreeValues(h, h[n].right)

\* The nodes in the subtree at n.
RECURSIVE SubtreeNodes(_, _)
SubtreeNodes(h, n) ==
    IF n = NullNode THEN {}
    ELSE {n} \cup SubtreeNodes(h, h[n].left) \cup SubtreeNodes(h, h[n].right)

Abs(x) == IF x < 0 THEN -x ELSE x

\* C6: after any sequence of inserts and erases the heights of the left and
\* right subtree of every node differ by at most 1 (no child: height 0).
C6_AVLBalance ==
    \A n \in DOMAIN nodes :
        Abs(TreeHeight(nodes, nodes[n].left) - TreeHeight(nodes, nodes[n].right)) <= 1

\* C6 witness: an erase has returned and left a tree of at least four values
\* and height 3 with a node whose subtrees differ in height.
C6_Witness ==
    /\ tlast.name = "erase" /\ tlast.wasIn
    /\ num_values >= 4
    /\ TreeHeight(nodes, root) = 3
    /\ \E n \in DOMAIN nodes :
          TreeHeight(nodes, nodes[n].left) # TreeHeight(nodes, nodes[n].right)

\* C7: after every insert and erase, at every node all values of the left
\* subtree are less than the node's value and all values of the right
\* subtree are greater.
C7_BSTOrder ==
    \A n \in DOMAIN nodes :
        /\ \A v \in SubtreeValues(nodes, nodes[n].left) : v < nodes[n].value
        /\ \A v \in SubtreeValues(nodes, nodes[n].right) : nodes[n].value < v

\* C7 witness: the erase of a stored value has returned and the root still
\* has values on both sides, with a right child that has a left child.
C7_Witness ==
    /\ tlast.name = "erase" /\ tlast.wasIn
    /\ root # NullNode
    /\ nodes[root].left # NullNode
    /\ nodes[root].right # NullNode
    /\ nodes[nodes[root].right].left # NullNode

\* C8: the tree holds exactly an abstract set: find(v) is an iterator to v
\* when v is in the set and end() when it is not, size() is the cardinality,
\* insert adds its value, erase removes it, clear empties the set, and the
\* erase of an absent value changes nothing.
SetMatches ==
    /\ \A v \in TreeValues :
          IF v \in Stored
          THEN Set_find(v) # NullNode /\ nodes[Set_find(v)].value = v
          ELSE Set_find(v) = NullNode
    /\ num_values = Cardinality(Stored)
    /\ num_values = Cardinality(DOMAIN nodes)
    /\ SubtreeNodes(nodes, root) = DOMAIN nodes
SetStep ==
    /\ (tlast'.name = "insert") => Stored' = Stored \cup {tlast'.value}
    /\ (tlast'.name = "erase") => Stored' = Stored \ {tlast'.value}
    /\ (tlast'.name = "clear") => Stored' = {}
    /\ (tlast'.name = "erase" /\ ~tlast'.wasIn)
          => /\ nodes' = nodes /\ root' = root
             /\ first_node' = first_node /\ num_values' = num_values
C8_AbstractSet == [](SetMatches) /\ [][SetStep]_vars

\* C8 witness: erase(v) of a stored value has returned from a tree of at
\* least three values and find(v) is end().
C8_Witness ==
    /\ tlast.name = "erase" /\ tlast.wasIn
    /\ num_values >= 3
    /\ Set_find(tlast.value) = NullNode

\* C9: lower_bound(q) is an iterator to the smallest stored value that is
\* not less than q, and end() exactly when there is none (the tree is empty
\* or q is greater than every stored value).
Queries == 0 .. (MaxValue + 1)
C9_LowerBound ==
    \A q \in Queries :
        LET notLess == {v \in Stored : ~(v < q)}
        IN  IF notLess = {}
            THEN lower_bound(q) = NullNode
            ELSE /\ lower_bound(q) \in DOMAIN nodes
                 /\ nodes[lower_bound(q)].value \in notLess
                 /\ \A v \in notLess : nodes[lower_bound(q)].value <= v

\* C9 witness: a tree where one query that is not stored is answered by a
\* node left behind on the way down, and another one by end().
C9_Witness ==
    /\ num_values >= 4
    /\ \E q \in Queries :
          /\ q \notin Stored
          /\ lower_bound(q) # NullNode
          /\ nodes[lower_bound(q)].left # NullNode
    /\ \E q \in Queries : lower_bound(q) = NullNode

\* C13: insert(v) of a value that is stored changes nothing: size(), the
\* stored values, the shape of the tree (child and parent links, root, cached
\* leftmost node) and the height of every node are as before.
C13_InsertStoredIsNoOp ==
    [][(tlast'.name = "insert" /\ tlast'.wasIn) =>
          /\ num_values' = num_values
          /\ nodes' = nodes
          /\ root' = root
          /\ first_node' = first_node]_vars

\* C13 witness: insert of a stored value that is not at the root has
\* returned, in a tree of at least four values.
C13_Witness ==
    /\ tlast.name = "insert" /\ tlast.wasIn
    /\ num_values >= 4
    /\ nodes[root].value # tlast.value

\* The nodes operator++ visits from node on, until end() is reached or fuel
\* increments are done.
RECURSIVE Visit(_, _, _, _)
Visit(h, r, node, fuel) ==
    IF node = NullNode \/ fuel = 0 THEN <<>>
    ELSE <<node>> \o Visit(h, r, Increment(h, r, node), fuel - 1)

\* C19: from begin(), ++ reaches end() after exactly size() increments; the
\* values visited are strictly ascending and are the stored values, each
\* once; on a set that is not empty -- on end() gives the node of the maximum;
\* and -- applied to the result of a ++ gives the node the ++ started from.
C19_IteratorOrder ==
    LET w == Visit(nodes, root, first_node, num_values + 1)
    IN  /\ Len(w) = num_values
        /\ \A i \in 1 .. (Len(w) - 1) : nodes[w[i]].value < nodes[w[i + 1]].value
        /\ {nodes[w[i]].value : i \in 1 .. Len(w)} = Stored
        /\ Cardinality(Stored) = num_values
        /\ num_values > 0 =>
              \A v \in Stored : v <= nodes[Decrement(nodes, root, NullNode)].value
        /\ \A i \in 1 .. Len(w) :
              Decrement(nodes, root, Increment(nodes, root, w[i])) = w[i]

\* C19 witness: a tree of five or more values, last changed by the erase of
\* a stored value, in which some ++ climbs two or more links.
C19_Witness ==
    /\ tlast.name = "erase" /\ tlast.wasIn
    /\ num_values >= 5
    /\ \E n \in DOMAIN nodes :
          /\ nodes[n].right = NullNode
          /\ ClimbFromRight(nodes, root, n) \notin {n, nodes[n].parent}

\* The least and the greatest element of a set of values.
Least(S) == CHOOSE x \in S : \A y \in S : x <= y
Greatest(S) == CHOOSE x \in S : \A y \in S : y <= x

\* The value erase(v) is to put in the place of v: the least value of the
\* right subtree of n when n has no left child or its right subtree is
\* strictly taller than its left one, else the greatest of the left subtree.
Neighbour(h, n) ==
    IF h[n].left = NullNode
       \/ TreeHeight(h, h[n].right) > TreeHeight(h, h[n].left)
    THEN Least(SubtreeValues(h, h[n].right))
    ELSE Greatest(SubtreeValues(h, h[n].left))

\* C20: erase(v) of a value held by a node n with a child: afterwards n holds
\* the neighbour of v chosen by the rule above; v is stored no more (the
\* descent reached it where the swap put it); and the one node deleted is
\* another node f, which had no child.
C20_EraseNeighbour ==
    [][(tlast'.name = "erase" /\ tlast'.wasIn /\ tlast'.inner) =>
          \E n \in {m \in DOMAIN nodes : nodes[m].value = tlast'.value} :
          \E r \in {erase_value(nodes, root, tlast'.value)} :
              /\ r.removed = 1
              /\ num_values' = num_values - 1
              /\ Stored' = Stored \ {tlast'.value}
              /\ nodes' = Renamed(r.h)
              /\ n \in DOMAIN r.h
              /\ r.h[n].value = Neighbour(nodes, n)
              /\ \E f \in DOMAIN nodes :
                    /\ DOMAIN r.h = (DOMAIN nodes) \ {f}
                    /\ nodes[f].left = NullNode
                    /\ nodes[f].right = NullNode]_vars

\* C20 witness: erase has removed a value held by a node with a child, a
\* value between those of the root's left child and of the root, from a tree
\* that still holds six or more values.
C20_Witness ==
    /\ tlast.name = "erase" /\ tlast.wasIn /\ tlast.inner
    /\ num_values >= 6
    /\ nodes[root].left # NullNode /\ nodes[root].right # NullNode
    /\ nodes[nodes[root].left].value < tlast.value
    /\ tlast.value < nodes[root].value

\* The height field of the child c, 0 for a missing child.
HeightField(h, c) == IF c = NullNode THEN 0 ELSE h[c].height

\* C21: when insert or erase has returned, the height field of every node is
\* 1 + max of the height fields of its children, a missing child counting 0;
\* so it is at least 1, and it is the height of the subtree counted on the
\* links.
C21_HeightFields ==
    \A n \in DOMAIN nodes :
        /\ nodes[n].height = 1 + Max(HeightField(nodes, nodes[n].left),
                                     HeightField(nodes, nodes[n].right))
        /\ nodes[n].height >= 1
        /\ nodes[n].height = TreeHeight(nodes, n)

\* C21 witness: an insert of a new value has returned with a root of height
\* 4 whose right subtree is the taller one and holds a node with two
\* children of different heights.
C21_Witness ==
    /\ tlast.name = "insert" /\ ~tlast.wasIn
    /\ nodes[root].height = 4
    /\ HeightField(nodes, nodes[root].right) > HeightField(nodes, nodes[root].left)
    /\ \E n \in SubtreeNodes(nodes, nodes[root].right) :
          /\ nodes[n].left # NullNode /\ nodes[n].right # NullNode
          /\ nodes[nodes[n].left].height # nodes[nodes[n].right].height

\* C24: when insert or erase has returned, the parent of the root is null
\* and every child link is answered by the child's parent link.
C24_ParentLinks ==
    /\ root # NullNode => (root \in DOMAIN nodes /\ nodes[root].parent = NullNode)
    /\ \A n \in DOMAIN nodes :
          /\ nodes[n].left # NullNode =>
                (nodes[n].left \in DOMAIN nodes /\ nodes[nodes[n].left].parent = n)
          /\ nodes[n].right # NullNode =>
                (nodes[n].right \in DOMAIN nodes /\ nodes[nodes[n].right].parent = n)

\* C24 witness: the value just inserted sits in a node with two children that
\* is not the root: a double rotation below the root has lifted the new node
\* above its former parent and grandparent.
C24_Witness ==
    /\ tlast.name = "insert" /\ ~tlast.wasIn
    /\ \E n \in DOMAIN nodes :
          /\ nodes[n].value = tlast.value
          /\ nodes[n].left # NullNode /\ nodes[n].right # NullNode
          /\ nodes[n].parent # NullNode

=============================================================================
